---- MODULE Spec2Model ----
(***************************************************************************)
(* Workflow-lifecycle and review-orchestration engine of emdash:           *)
(*   - reviewRunner.ts        the single-flight review pipeline            *)
(*   - kanbanStore.ts         status store and pending-review flags        *)
(*   - KanbanBoard.tsx        lifecycle aggregator (markDone, timers,      *)
(*                            polls, drag and drop)                        *)
(*   - workspaceProviderTabs  tab registry                                 *)
(*   - useReviewAgent.ts      review auto-start gate                       *)
(* One set of variables; one specification per component plus Spec, the    *)
(* union of all of them.                                                   *)
(***************************************************************************)
EXTENDS Integers, Sequences, FiniteSets, TLC

\* ------------------------------------------------------------------------
\* Bounds of the model
\* ------------------------------------------------------------------------
\* review computations ever started (work ids 1..MaxWorks)
MaxWorks == 2
\* changes reported by one VCS-status response
MaxChanges == 2

\* ------------------------------------------------------------------------
\* Inputs
\* ------------------------------------------------------------------------
WorkspaceIds == {"ws1", "ws2"}
\* project.workspaces, in list order
wsList == <<"ws1", "ws2">>

None == "none"
\* Map.get() of an absent key
NoState == [status |-> "absent"]

\* changed files a VCS-status response may report; a path is its sequence
\* of segments
ChangeSet ==
  { [path |-> <<"src", "index.ts">>, additions |-> 5, deletions |-> 2],
    [path |-> <<"README.md">>, additions |-> 2, deletions |-> 4],
    [path |-> <<".emdash", "plan.md">>, additions |-> 1, deletions |-> 1],
    [path |-> <<"PLANNING.md">>, additions |-> 3, deletions |-> 0] }

\* the sequences of at most n distinct elements of S
SeqsUpTo(S, n) ==
  {t \in UNION {[1..m -> S] : m \in 0..n} :
     \A i, j \in DOMAIN t : i # j => t[i] # t[j]}

\* outcomes of electronAPI.getGitStatus: a rejection with err.message, a
\* response with success false and an error text (possibly empty), or a
\* response with success true and the changes
GitResponses ==
  {[rejected |-> TRUE, success |-> FALSE, error |-> "spawn git ENOENT",
    changes |-> <<>>],
   [rejected |-> FALSE, success |-> FALSE, error |-> "not a git repository",
    changes |-> <<>>],
   [rejected |-> FALSE, success |-> FALSE, error |-> "", changes |-> <<>>]} \cup
  {[rejected |-> FALSE, success |-> TRUE, error |-> "", changes |-> c] :
     c \in SeqsUpTo(ChangeSet, MaxChanges)}

\* the outcomes the interleaving runs draw from: one of each kind
GitResponsesBrief ==
  {res \in GitResponses :
     /\ res.error # ""
        \/ res.success
     /\ res.changes \in
          {<<>>,
           <<[path |-> <<".emdash", "plan.md">>, additions |-> 1, deletions |-> 1],
             [path |-> <<"src", "index.ts">>, additions |-> 5, deletions |-> 2]>>}}

\* outcomes of electronAPI.getFileDiff: a diff, a response without one
\* (success false), or a rejection
DiffOutcomes == {"diff", "failed", "rejected"}

\* listeners that subscribe to a workspace's review state
Subscribers == {"s1"}

\* ------------------------------------------------------------------------
\* State
\* ------------------------------------------------------------------------
VARIABLES
  states,          \* reviewRunner: Map workspaceId -> ReviewState (NoState = absent)
  inflight,        \* reviewRunner: Map workspaceId -> work id (0 = absent)
  works,           \* the async computations started so far, by work id
  listeners,       \* reviewRunner: Map workspaceId -> set of listeners
  gitStatusCalls,  \* invocations of getGitStatus by the review pipeline, per workspace
  fileDiffCalls,   \* invocations of getFileDiff, per workspace
  cache,           \* kanbanStore: status map (None = key absent)
  reviewPendingCache, \* kanbanStore: pending-review flags (FALSE = key absent)
  statusItem,      \* localStorage item emdash:kanban:statusByWorkspace
  pendingItem,     \* localStorage item emdash:kanban:reviewPending
  statusMap,       \* KanbanBoard: React state mirroring the status map
  busy,            \* activityStore: the busy flag it last reported, per workspace
  idleTimers,      \* KanbanBoard: idle timers armed by the current subscription
  leakedTimers,    \* idle timers armed by an earlier subscription, still pending
  poll,            \* KanbanBoard: the polling pass in flight
  workspaceStates, \* workspaceProviderTabs: in-memory tab collections (NoTabs = absent)
  tabStorage,      \* localStorage entries emdash:providerTabs:v1:<workspaceId>
  gate,            \* useReviewAgent: the hook instance of each workspace view
  reviewRecord,    \* the last ReviewState handed to onReviewStateChange
  reviewPrompt,    \* localStorage entries emdash:reviewPrompt:<workspaceId>
  ev               \* the last operation and what it returned

reviewVars == <<states, inflight, works, listeners, gitStatusCalls, fileDiffCalls>>
statusVars == <<cache, statusItem>>
pendingVars == <<reviewPendingCache, pendingItem>>
storeVars == <<cache, reviewPendingCache, statusItem, pendingItem>>
boardVars == <<statusMap, busy, idleTimers, leakedTimers, poll>>
tabVars == <<workspaceStates, tabStorage>>
gateVars == <<gate, reviewRecord, reviewPrompt>>
vars == <<states, inflight, works, listeners, gitStatusCalls, fileDiffCalls,
          cache, reviewPendingCache, statusItem, pendingItem, statusMap, busy,
          idleTimers, leakedTimers,
          poll, workspaceStates, tabStorage, gate, reviewRecord, reviewPrompt,
          ev>>

\* ------------------------------------------------------------------------
\* Review pipeline (reviewRunner.ts)
\* ------------------------------------------------------------------------
NoWork == 0

\* const INITIAL_STATE
INITIAL_STATE ==
  [status |-> "idle", summary |-> <<"No review started yet.">>, files |-> <<>>,
   error |-> None, ref |-> <<NoWork, "initial">>]

\* the `running` object startReview builds; ref stands for the identity of
\* the object (which computation allocated it, and at which step)
RunningState(k) ==
  [status |-> "running", summary |-> <<"Starting code review">>, files |-> <<>>,
   error |-> None, ref |-> <<k, "running">>]

RECURSIVE SumOf(_, _)
SumOf(files, field) ==
  IF files = <<>> THEN 0 ELSE Head(files)[field] + SumOf(Tail(files), field)

\* summary string: `${n} file(s) changed (+${adds} / -${dels})` or the
\* no-changes message
SummaryOf(files) ==
  IF Len(files) > 0
    THEN <<Len(files), IF Len(files) = 1 THEN "file" ELSE "files", "changed",
           SumOf(files, "additions"), SumOf(files, "deletions")>>
    ELSE <<"No local changes to review.">>

\* the `next` object of a finished computation
SuccessState(k, files) ==
  [status |-> "success", summary |-> SummaryOf(files), files |-> files,
   error |-> None, ref |-> <<k, "final">>]

\* the `failure` object without the message
FailureStateNoMessage(k, msg) ==
  [status |-> "error", summary |-> <<"">>, files |-> <<>>,
   error |-> None, ref |-> <<k, "final">>]

\* the `failure` object of a failed computation
FailureState(k, msg) ==
  [status |-> "error", summary |-> <<"">>, files |-> <<>>,
   error |-> msg, ref |-> <<k, "final">>]

\* String(path).startsWith('.emdash/') || path === 'PLANNING.md'
IsBookkeepingPath(path) ==
  \/ Len(path) >= 2 /\ path[1] = ".emdash"
  \/ path = <<"PLANNING.md">>

\* the filter with the PLANNING.md test left out
FilterChangesKeepPlanning(changes) ==
  LET keep(c) == ~(Len(c.path) >= 2 /\ c.path[1] = ".emdash")
  IN SelectSeq(changes, keep)

RECURSIVE FilterChanges(_)
FilterChanges(changes) ==
  IF changes = <<>> THEN <<>>
  ELSE IF IsBookkeepingPath(Head(changes).path)
         THEN FilterChanges(Tail(changes))
         ELSE <<Head(changes)>> \o FilterChanges(Tail(changes))

\* getReviewState
getReviewState(w) == IF states[w] = NoState THEN INITIAL_STATE ELSE states[w]

\* emit(workspaceId) after states.set(workspaceId, state): the state handed
\* to the listeners registered at that moment
emit(w, state) == [state |-> state, to |-> listeners[w]]

\* no emit in this step
NoEmit == [state |-> NoState, to |-> {}]

\* err?.message || String(err) of what the try block threw
FailureMessage(res) ==
  IF res.rejected THEN res.error
  ELSE IF res.error # "" THEN res.error
  ELSE "Unable to collect git status for review"

\* collectFileDiff: the diff, or undefined for a failed or rejected call
collectFileDiff(outcome) == IF outcome = "diff" THEN "diff" ELSE None

\* what an unfinished computation is waiting for
WorkIds == 1..Len(works)
Unfinished(k) == works[k].pc # "done"

\* startReview, the guards in front of the computation: the value the call
\* returns when it does not start a new computation
StartReviewShortcut(w) ==
  IF inflight[w] # NoWork
    THEN [kind |-> "promise", work |-> inflight[w]]
  ELSE IF states[w].status = "success"
    THEN [kind |-> "value", state |-> states[w]]
  ELSE IF states[w].status = "running"
    THEN [kind |-> "value", state |-> states[w]]
  ELSE [kind |-> "start"]

\* startReview as a whole: runs to the first await of the computation it
\* starts, which is the getGitStatus call
StartReviewStarts(w) == StartReviewShortcut(w).kind = "start"

StartReviewRet(w) ==
  IF StartReviewStarts(w)
    THEN [kind |-> "promise", work |-> Len(works) + 1]
    ELSE StartReviewShortcut(w)

StartReviewEffect(w) ==
  LET k == Len(works) + 1
  IN IF ~StartReviewStarts(w)
       THEN UNCHANGED reviewVars
       ELSE /\ Len(works) < MaxWorks
            /\ states' = [states EXCEPT ![w] = RunningState(k)]
            /\ works' = Append(works, [ws |-> w, pc |-> "gitStatus", todo |-> <<>>,
                                       files |-> <<>>, result |-> NoState,
                                       orphaned |-> FALSE, reported |-> <<>>,
                                       emits |-> 1])
            /\ gitStatusCalls' = [gitStatusCalls EXCEPT ![w] = @ + 1]
            /\ inflight' = [inflight EXCEPT ![w] = k]
            /\ UNCHANGED <<fileDiffCalls, listeners>>

\* startReview moving the workspace back to in-progress
StartReviewMarking(w) ==
  /\ StartReviewEffect(w)
  /\ cache' = [cache EXCEPT ![w] = "in-progress"]
  /\ UNCHANGED <<statusItem, reviewPendingCache, pendingItem, boardVars, tabVars, gateVars>>
  /\ ev' = [op |-> "startReview", ws |-> w, started |-> StartReviewStarts(w),
            ret |-> StartReviewRet(w),
            emit |-> IF StartReviewStarts(w)
                       THEN emit(w, RunningState(Len(works) + 1)) ELSE NoEmit]

\* a direct call of the exported startReview
StartReview(w) ==
  /\ StartReviewEffect(w)
  /\ UNCHANGED <<storeVars, boardVars, tabVars, gateVars>>
  /\ ev' = [op |-> "startReview", ws |-> w, started |-> StartReviewStarts(w),
            ret |-> StartReviewRet(w),
            emit |-> IF StartReviewStarts(w)
                       THEN emit(w, RunningState(Len(works) + 1)) ELSE NoEmit]

\* a call of startReview whose getGitStatus throws when it is called: the
\* async function has not reached an await, so its catch and finally
\* (states.set, emit, inflight.delete) run before startReview goes on to
\* inflight.set(workspaceId, work)
StartReviewSyncThrow(w) ==
  LET k == Len(works) + 1
      failure == FailureState(k, "getGitStatus threw")
  IN /\ StartReviewStarts(w)
     /\ Len(works) < MaxWorks
     /\ states' = [states EXCEPT ![w] = failure]
     /\ works' = Append(works, [ws |-> w, pc |-> "done", todo |-> <<>>,
                                files |-> <<>>, result |-> failure,
                                orphaned |-> FALSE, reported |-> <<>>,
                                emits |-> 2])
     /\ gitStatusCalls' = [gitStatusCalls EXCEPT ![w] = @ + 1]
     /\ inflight' = [inflight EXCEPT ![w] = k]
     /\ UNCHANGED <<fileDiffCalls, listeners, storeVars, boardVars, tabVars, gateVars>>
     /\ ev' = [op |-> "startReview", ws |-> w, started |-> TRUE,
               ret |-> [kind |-> "promise", work |-> k],
               emit |-> emit(w, failure)]

\* the computation ends emitting at every step as well
FinishWorkEmitTwice(k, final) ==
  LET w == works[k].ws
  IN /\ states' = [states EXCEPT ![w] = final]
     /\ inflight' = [inflight EXCEPT ![w] = NoWork]
     /\ works' = [works EXCEPT ![k].pc = "done", ![k].result = final,
                               ![k].todo = <<>>,
                               ![k].files = final.files,
                               ![k].reported = <<>>,
                               ![k].emits = @ + 2]

\* the computation ends: states.set, emit, finally inflight.delete
FinishWork(k, final) ==
  LET w == works[k].ws
  IN /\ states' = [states EXCEPT ![w] = final]
     /\ inflight' = [inflight EXCEPT ![w] = NoWork]
     /\ works' = [works EXCEPT ![k].pc = "done", ![k].result = final,
                               ![k].todo = <<>>,
                               ![k].files = final.files,
                               ![k].reported = <<>>,
                               ![k].emits = @ + 1]

\* a rejected getGitStatus call that nothing catches: the promise of the
\* computation rejects, finally deletes the in-flight entry and the
\* workspace's state stays as it was
GitStatusReturnUncaught(k, res) ==
  /\ k \in WorkIds
  /\ works[k].pc = "gitStatus"
  /\ LET w == works[k].ws
         filtered == FilterChanges(res.changes)
         final == IF ~res.success THEN FailureState(k, FailureMessage(res))
                  ELSE SuccessState(k, <<>>)
     IN /\ IF res.rejected
             THEN /\ works' = [works EXCEPT ![k].pc = "done"]
                  /\ inflight' = [inflight EXCEPT ![w] = NoWork]
                  /\ UNCHANGED <<states, fileDiffCalls>>
                  /\ ev' = [op |-> "gitStatusReturn", ws |-> w, work |-> k,
                            res |-> res, emit |-> NoEmit]
           ELSE IF ~res.success \/ filtered = <<>>
             THEN /\ FinishWork(k, final)
                  /\ UNCHANGED fileDiffCalls
                  /\ ev' = [op |-> "gitStatusReturn", ws |-> w, work |-> k,
                            res |-> res, emit |-> emit(w, final)]
             ELSE /\ works' = [works EXCEPT ![k].pc = "fileDiff", ![k].todo = filtered,
                                            ![k].reported = res.changes]
                  /\ fileDiffCalls' = [fileDiffCalls EXCEPT ![w] = @ + 1]
                  /\ UNCHANGED <<states, inflight>>
                  /\ ev' = [op |-> "gitStatusReturn", ws |-> w, work |-> k,
                            res |-> res, emit |-> NoEmit]
        /\ UNCHANGED <<listeners, gitStatusCalls, storeVars, boardVars, tabVars, gateVars>>

\* getGitStatus answers computation k
GitStatusReturn(k, res) ==
  /\ k \in WorkIds
  /\ works[k].pc = "gitStatus"
  /\ LET w == works[k].ws
         filtered == FilterChanges(res.changes)
         final == IF ~res.success THEN FailureState(k, FailureMessage(res))
                  ELSE SuccessState(k, <<>>)
     IN /\ IF ~res.success \/ filtered = <<>>
             THEN /\ FinishWork(k, final)
                  /\ UNCHANGED fileDiffCalls
                  /\ ev' = [op |-> "gitStatusReturn", ws |-> w, work |-> k,
                            res |-> res, emit |-> emit(w, final)]
             ELSE /\ works' = [works EXCEPT ![k].pc = "fileDiff", ![k].todo = filtered,
                                            ![k].reported = res.changes]
                  /\ fileDiffCalls' = [fileDiffCalls EXCEPT ![w] = @ + 1]
                  /\ UNCHANGED <<states, inflight>>
                  /\ ev' = [op |-> "gitStatusReturn", ws |-> w, work |-> k,
                            res |-> res, emit |-> NoEmit]
        /\ UNCHANGED <<listeners, gitStatusCalls, storeVars, boardVars, tabVars, gateVars>>

\* a failed diff call ends the computation in the error state
FileDiffReturnAborting(k, outcome) ==
  /\ k \in WorkIds
  /\ works[k].pc = "fileDiff"
  /\ LET w == works[k].ws
         final == IF outcome = "diff" /\ Len(works[k].todo) = 1
                    THEN SuccessState(k, works[k].files)
                    ELSE FailureState(k, "diff failed")
     IN /\ FinishWork(k, final)
        /\ ev' = [op |-> "fileDiffReturn", ws |-> w, work |-> k,
                  outcome |-> outcome, emit |-> emit(w, final)]
        /\ UNCHANGED <<listeners, fileDiffCalls, gitStatusCalls, storeVars,
                       boardVars, tabVars, gateVars>>

\* getFileDiff answers, fails or rejects for the file computation k is at
FileDiffReturn(k, outcome) ==
  /\ k \in WorkIds
  /\ works[k].pc = "fileDiff"
  /\ LET w == works[k].ws
         change == Head(works[k].todo)
         file == [path |-> change.path, additions |-> change.additions,
                  deletions |-> change.deletions, diff |-> collectFileDiff(outcome)]
         files == Append(works[k].files, file)
         rest == Tail(works[k].todo)
     IN /\ IF rest = <<>>
             THEN /\ FinishWork(k, SuccessState(k, files))
                  /\ UNCHANGED fileDiffCalls
                  /\ ev' = [op |-> "fileDiffReturn", ws |-> w, work |-> k,
                            outcome |-> outcome,
                            emit |-> emit(w, SuccessState(k, files))]
             ELSE /\ works' = [works EXCEPT ![k].todo = rest, ![k].files = files]
                  /\ fileDiffCalls' = [fileDiffCalls EXCEPT ![w] = @ + 1]
                  /\ UNCHANGED <<states, inflight>>
                  /\ ev' = [op |-> "fileDiffReturn", ws |-> w, work |-> k,
                            outcome |-> outcome, emit |-> NoEmit]
        /\ UNCHANGED <<listeners, gitStatusCalls, storeVars, boardVars, tabVars, gateVars>>

\* subscribeToReviewState
subscribeToReviewState(w, l) ==
  /\ l \notin listeners[w]
  /\ listeners' = [listeners EXCEPT ![w] = @ \cup {l}]
  /\ UNCHANGED <<states, inflight, works, gitStatusCalls, fileDiffCalls,
                 storeVars, boardVars, tabVars, gateVars>>
  /\ ev' = [op |-> "subscribe", ws |-> w]

\* the function subscribeToReviewState returned is called
unsubscribeFromReviewState(w, l) ==
  /\ l \in listeners[w]
  /\ listeners' = [listeners EXCEPT ![w] = @ \ {l}]
  /\ UNCHANGED <<states, inflight, works, gitStatusCalls, fileDiffCalls,
                 storeVars, boardVars, tabVars, gateVars>>
  /\ ev' = [op |-> "unsubscribe", ws |-> w]

\* resetReviewState: states.clear(); inflight.clear(); listeners.clear().  A computation that
\* is between two awaits keeps running; `orphaned` records that it was
\* started before the reset.
resetReviewState ==
  /\ states' = [w \in WorkspaceIds |-> NoState]
  /\ inflight' = [w \in WorkspaceIds |-> NoWork]
  /\ listeners' = [w \in WorkspaceIds |-> {}]
  /\ works' = [k \in WorkIds |->
                 IF Unfinished(k) THEN [works[k] EXCEPT !.orphaned = TRUE] ELSE works[k]]
  /\ UNCHANGED <<gitStatusCalls, fileDiffCalls, storeVars, boardVars, tabVars, gateVars>>
  /\ ev' = [op |-> "reset"]

ReviewInit ==
  /\ states = [w \in WorkspaceIds |-> NoState]
  /\ inflight = [w \in WorkspaceIds |-> NoWork]
  /\ works = <<>>
  /\ listeners = [w \in WorkspaceIds |-> {}]
  /\ gitStatusCalls = [w \in WorkspaceIds |-> 0]
  /\ fileDiffCalls = [w \in WorkspaceIds |-> 0]

\* ------------------------------------------------------------------------
\* Status store (kanbanStore.ts)
\* ------------------------------------------------------------------------
KanbanStatus == {"todo", "in-progress", "done"}

\* `cache` and `reviewPendingCache` before the first read: null
NullCache == [loaded |-> FALSE]

\* {} as a status map and as a flag map
EmptyMap == [w \in WorkspaceIds |-> None]
EmptyFlags == [w \in WorkspaceIds |-> FALSE]

\* what localStorage holds under a key of the store: nothing, text that is
\* not JSON, JSON that is not an object (a number, a string, null), an
\* object; or the storage throws on every access; or it holds an object
\* and has no room left, so that getItem answers and setItem throws
NoItem == [kind |-> "absent"]
Json(map) == [kind |-> "json", map |-> map]
Full(map) == [kind |-> "full", map |-> map]
StatusItems ==
  { NoItem, [kind |-> "malformed"], [kind |-> "nonobject"], [kind |-> "throws"],
    Json([EmptyMap EXCEPT !["ws2"] = "done"]),
    Full([EmptyMap EXCEPT !["ws2"] = "done"]) }
PendingItems ==
  { NoItem, [kind |-> "malformed"], [kind |-> "throws"],
    Json([EmptyFlags EXCEPT !["ws2"] = TRUE]),
    Full([EmptyFlags EXCEPT !["ws2"] = TRUE]) }

\* localStorage.getItem answers with an object for the item
holdsObject(item) == item.kind \in {"json", "full"}

\* localStorage.setItem throws for the item
setItemThrows(item) == item.kind \in {"throws", "full"}

\* read(): the cache, hydrated from the stored item on the first call
read ==
  IF cache # NullCache THEN cache
  ELSE IF holdsObject(statusItem) THEN statusItem.map
  ELSE EmptyMap

\* write(next) assigning the cache after setItem, inside the try
writeThrough(next) ==
  /\ cache' = IF setItemThrows(statusItem) THEN cache ELSE next
  /\ statusItem' = IF setItemThrows(statusItem) THEN statusItem ELSE Json(next)

\* write(next): the cache is replaced, setItem is best-effort
write(next) ==
  /\ cache' = next
  /\ statusItem' = IF setItemThrows(statusItem) THEN statusItem ELSE Json(next)

\* getStatus without the `|| 'todo'` default
getStatusRaw(w) == read[w]

\* getStatus: map[workspaceId] || 'todo'
getStatus(w) == IF read[w] = None THEN "todo" ELSE read[w]

\* setStatus: write({...read(), [workspaceId]: status}); the map written
setStatus(map, w, status) == [map EXCEPT ![w] = status]

\* readReviewPending()
readReviewPending ==
  IF reviewPendingCache # NullCache THEN reviewPendingCache
  ELSE IF holdsObject(pendingItem) THEN pendingItem.map
  ELSE EmptyFlags

\* writeReviewPending(next)
writeReviewPending(next) ==
  /\ reviewPendingCache' = next
  /\ pendingItem' = IF setItemThrows(pendingItem) THEN pendingItem ELSE Json(next)

\* isReviewPending: readReviewPending()[workspaceId] === true
isReviewPending(w) == readReviewPending[w] = TRUE

\* setReviewPending: the flag map written (a false flag deletes the key)
setReviewPending(map, w, pending) == [map EXCEPT ![w] = pending]

\* clearReviewPending
clearReviewPending(map, w) == setReviewPending(map, w, FALSE)

\* whether write() and writeReviewPending() let an exception of setItem or
\* JSON.stringify escape: both run inside a try/catch
writeThrows == FALSE

\* a client of the store sets or clears the flag through the exported API
CallSetReviewPending(w, pending) ==
  /\ writeReviewPending(setReviewPending(readReviewPending, w, pending))
  /\ UNCHANGED <<statusVars, reviewVars, boardVars, tabVars, gateVars>>
  /\ ev' = [op |-> "setReviewPending", ws |-> w, pending |-> pending,
            threw |-> writeThrows]

\* whether read() lets an exception of getItem or JSON.parse escape: both
\* run inside its try/catch
readThrows == FALSE

\* a client reads a status; the first read hydrates the cache
CallGetStatus(w) ==
  /\ cache' = read
  /\ ev' = [op |-> "getStatus", ws |-> w, ret |-> getStatus(w), threw |-> readThrows]
  /\ UNCHANGED <<statusItem, pendingVars, reviewVars, boardVars, tabVars, gateVars>>

\* the setItem calls of one write() that reach the durable store
SetItemCalls == IF setItemThrows(statusItem) THEN 0 ELSE 1

\* a client writes a status (ev.again: the call repeats the one before it)
CallSetStatus(w, status) ==
  /\ write(setStatus(read, w, status))
  /\ ev' = [op |-> "setStatus", ws |-> w, status |-> status,
            writes |-> SetItemCalls, threw |-> writeThrows,
            again |-> (ev.op = "setStatus" /\ ev.ws = w /\ ev.status = status)]
  /\ UNCHANGED <<pendingVars, reviewVars, boardVars, tabVars, gateVars>>

\* a client reads a flag; the first read hydrates the flag cache
CallIsReviewPending(w) ==
  /\ reviewPendingCache' = readReviewPending
  /\ ev' = [op |-> "isReviewPending", ws |-> w, ret |-> isReviewPending(w)]
  /\ UNCHANGED <<pendingItem, statusVars, reviewVars, boardVars, tabVars, gateVars>>

\* the renderer is reloaded: the module starts with null caches, the stored
\* items stay
ReloadStore ==
  /\ cache' = NullCache
  /\ reviewPendingCache' = NullCache
  /\ ev' = [op |-> "reloadStore"]
  /\ UNCHANGED <<statusItem, pendingItem, reviewVars, boardVars, tabVars, gateVars>>

\* a session that has not read the store yet, on whatever earlier sessions
\* and other writers left under the two keys
StoreInitCold ==
  /\ cache = NullCache
  /\ reviewPendingCache = NullCache
  /\ statusItem \in StatusItems
  /\ pendingItem \in PendingItems

\* a session on a machine with nothing stored, after the first read of each
\* map
StoreInit ==
  /\ cache = EmptyMap
  /\ reviewPendingCache = EmptyFlags
  /\ statusItem = NoItem
  /\ pendingItem = NoItem

\* ------------------------------------------------------------------------
\* Lifecycle aggregator (KanbanBoard.tsx)
\* ------------------------------------------------------------------------
PollKinds == {"changes", "pr", "ahead"}
PollOutcomes == {"positive", "negative", "error"}

\* ws.path
workspacePath(w) == <<"worktrees", w>>

\* autoStartReviewIfDone(workspace, targetStatus): the review-start calls it
\* makes, as the sequence of their arguments
AutoStartCalls(w, targetStatus) ==
  IF targetStatus # "done" THEN <<>>
  ELSE IF workspacePath(w) = <<>> THEN <<>>
  ELSE <<[workspaceId |-> w, workspacePath |-> workspacePath(w)]>>

\* markDone without the comparison against the current status
markDoneAlways(w, calls) ==
  /\ statusMap' = [statusMap EXCEPT ![w] = "done"]
  /\ write(setStatus(read, w, "done"))
  /\ StartReviewEffect(w)
  /\ calls = AutoStartCalls(w, "done")

\* markDone(ws): the functional update of statusMap is evaluated when it is
\* dispatched, so `changed` is known when markDone tests it.
\* Yields the review-start calls made, through `calls`.
markDone(w, calls) ==
  LET cur == IF statusMap[w] = None THEN "todo" ELSE statusMap[w]
      changed == cur # "done"
  IN /\ statusMap' = IF changed THEN [statusMap EXCEPT ![w] = "done"] ELSE statusMap
     /\ write(setStatus(read, w, "done"))
     /\ IF changed /\ AutoStartCalls(w, "done") # <<>>
          THEN /\ StartReviewEffect(w)
               /\ calls = AutoStartCalls(w, "done")
          ELSE /\ UNCHANGED reviewVars
               /\ calls = <<>>

\* the board leaves status and review pipeline alone
BoardNoTransition == UNCHANGED <<statusMap, statusVars, reviewVars>>

\* activityStore.subscribe(id, b => currentlyBusy = b) followed by un():
\* the store calls a new listener at once with the workspace's busy flag
CurrentlyBusy(w) == busy[w]

\* the derived-status listener leaving a done workspace done
DerivedBusyKeepsDone(w) ==
  /\ IF statusMap[w] \in {"in-progress", "done"}
       THEN UNCHANGED <<statusMap, statusVars>>
       ELSE /\ write(setStatus(read, w, "in-progress"))
            /\ statusMap' = [statusMap EXCEPT ![w] = "in-progress"]
  /\ UNCHANGED <<reviewVars, pendingVars, busy, idleTimers, leakedTimers, poll, tabVars, gateVars>>
  /\ ev' = [op |-> "derivedBusy", ws |-> w, was |-> getStatus(w), calls |-> <<>>]

\* the derived-status listener deferring the promotion to the idle timer
DerivedBusyDebounced(w) ==
  /\ idleTimers' = [idleTimers EXCEPT ![w] = TRUE]
  /\ UNCHANGED <<reviewVars, storeVars, statusMap, busy, leakedTimers, poll, tabVars, gateVars>>
  /\ ev' = [op |-> "derivedBusy", ws |-> w, was |-> getStatus(w), calls |-> <<>>]

\* subscribeDerivedStatus listener: the derived status reports busy
\* (ev.was: the stored status the listener found)
DerivedBusy(w) ==
  /\ IF statusMap[w] = "in-progress"
       THEN UNCHANGED <<statusMap, statusVars>>
       ELSE /\ write(setStatus(read, w, "in-progress"))
            /\ statusMap' = [statusMap EXCEPT ![w] = "in-progress"]
  /\ UNCHANGED <<reviewVars, pendingVars, busy, idleTimers, leakedTimers, poll, tabVars, gateVars>>
  /\ ev' = [op |-> "derivedBusy", ws |-> w, was |-> getStatus(w), calls |-> <<>>]

\* activityStore.subscribe listener of the current subscription: a busy
\* report clears the workspace's timer, an idle report re-arms it
ActivitySignal(w, isBusy) ==
  /\ busy' = [busy EXCEPT ![w] = isBusy]
  /\ idleTimers' = [idleTimers EXCEPT ![w] = ~isBusy]
  /\ UNCHANGED <<reviewVars, storeVars, statusMap, leakedTimers, poll, tabVars, gateVars>>
  /\ ev' = [op |-> "activity", ws |-> w, isBusy |-> isBusy, calls |-> <<>>]

\* the setTimeout callback of an idle timer, 10 s after it was armed
IdleTimerBody(w, calls) ==
  IF getStatus(w) = "in-progress"
    THEN markDone(w, calls)
    ELSE BoardNoTransition /\ calls = <<>>

\* a timer of the current subscription fires
IdleTimerFires(w) ==
  /\ idleTimers[w]
  /\ \E calls \in SeqsUpTo({[workspaceId |-> w, workspacePath |-> workspacePath(w)]}, 1) :
       /\ IdleTimerBody(w, calls)
       /\ ev' = [op |-> "idleTimer", ws |-> w, calls |-> calls]
  /\ idleTimers' = [idleTimers EXCEPT ![w] = FALSE]
  /\ UNCHANGED <<pendingVars, busy, leakedTimers, poll, tabVars, gateVars>>

\* a timer armed by an earlier subscription fires; it deletes its entry
\* from the map of that subscription
LeakedTimerFires(w) ==
  /\ leakedTimers[w]
  /\ \E calls \in SeqsUpTo({[workspaceId |-> w, workspacePath |-> workspacePath(w)]}, 1) :
       /\ IdleTimerBody(w, calls)
       /\ ev' = [op |-> "leakedTimer", ws |-> w, calls |-> calls]
  /\ leakedTimers' = [leakedTimers EXCEPT ![w] = FALSE]
  /\ UNCHANGED <<pendingVars, busy, idleTimers, poll, tabVars, gateVars>>

\* the onPtyExit listener without the busy test
PtyExitIgnoreBusy(w) ==
  /\ \E calls \in SeqsUpTo({[workspaceId |-> w, workspacePath |-> workspacePath(w)]}, 1) :
       /\ IF getStatus(w) = "in-progress" THEN markDone(w, calls)
          ELSE BoardNoTransition /\ calls = <<>>
       /\ ev' = [op |-> "ptyExit", ws |-> w, calls |-> calls]
  /\ UNCHANGED <<pendingVars, busy, idleTimers, leakedTimers, poll, tabVars, gateVars>>

\* electronAPI.onPtyExit listener
PtyExit(w) ==
  /\ \E calls \in SeqsUpTo({[workspaceId |-> w, workspacePath |-> workspacePath(w)]}, 1) :
       /\ IF CurrentlyBusy(w) THEN BoardNoTransition /\ calls = <<>>
          ELSE IF getStatus(w) = "in-progress" THEN markDone(w, calls)
          ELSE BoardNoTransition /\ calls = <<>>
       /\ ev' = [op |-> "ptyExit", ws |-> w, calls |-> calls]
  /\ UNCHANGED <<pendingVars, busy, idleTimers, leakedTimers, poll, tabVars, gateVars>>

\* handleDrop that only stores the target status
handleDropNoReview(target, w) ==
  /\ write(setStatus(read, w, target))
  /\ statusMap' = [statusMap EXCEPT ![w] = target]
  /\ UNCHANGED <<reviewVars, pendingVars, busy, idleTimers, leakedTimers, poll, tabVars, gateVars>>
  /\ ev' = [op |-> "drop", ws |-> w, target |-> target, calls |-> <<>>]

\* handleDrop(target, workspaceId); the id of a card always is that of a
\* workspace of the project
handleDrop(target, w) ==
  /\ \E calls \in SeqsUpTo({[workspaceId |-> w, workspacePath |-> workspacePath(w)]}, 1) :
       /\ IF target = "done"
            THEN markDone(w, calls)
            ELSE /\ write(setStatus(read, w, target))
                 /\ statusMap' = [statusMap EXCEPT ![w] = target]
                 /\ UNCHANGED reviewVars
                 /\ calls = <<>>
       /\ ev' = [op |-> "drop", ws |-> w, target |-> target, calls |-> calls]
  /\ UNCHANGED <<pendingVars, busy, idleTimers, leakedTimers, poll, tabVars, gateVars>>

\* a polling pass (the async check() of one of the three polling effects):
\* kind is the effect, pos the index in wsList of the workspace whose
\* collaborator call is awaited (0: no pass in flight), cancelled the flag
\* of the effect that started the pass.  The passes of the three effects
\* run the same code and meet only in markDone, so the model keeps one pass
\* in flight at a time.
NoPass == [kind |-> None, pos |-> 0, cancelled |-> FALSE]

NextPos(pos) == IF pos < Len(wsList) THEN pos + 1 ELSE 0

\* check() is called by the effect or its interval and reaches its first await
PollStart(kind) ==
  /\ poll.pos = 0
  /\ poll' = [kind |-> kind, pos |-> 1, cancelled |-> FALSE]
  /\ UNCHANGED <<reviewVars, storeVars, statusMap, busy, idleTimers, leakedTimers, tabVars, gateVars>>
  /\ ev' = [op |-> "pollStart", kind |-> kind, calls |-> <<>>]

\* check() without the busy test
PollProcessIgnoreBusy(w, outcome, cancelled, calls) ==
  IF outcome = "positive" /\ ~cancelled
    THEN markDone(w, calls)
    ELSE BoardNoTransition /\ calls = <<>>

\* what check() does with the answer for workspace w: a positive answer
\* marks the workspace done unless the effect was cleaned up or the
\* workspace is busy; a negative answer or a throw moves on
PollProcess(w, outcome, cancelled, calls) ==
  IF outcome = "positive" /\ ~cancelled
    THEN IF CurrentlyBusy(w) THEN BoardNoTransition /\ calls = <<>>
         ELSE markDone(w, calls)
    ELSE BoardNoTransition /\ calls = <<>>

\* a pass that a throwing collaborator call ends
PollReturnAbortOnError(outcome) ==
  /\ poll.pos > 0
  /\ LET w == wsList[poll.pos]
         next == IF outcome = "error" THEN 0 ELSE NextPos(poll.pos)
     IN /\ \E calls \in SeqsUpTo({[workspaceId |-> w, workspacePath |-> workspacePath(w)]}, 1) :
             /\ PollProcess(w, outcome, poll.cancelled, calls)
             /\ ev' = [op |-> "pollReturn", kind |-> poll.kind, ws |-> w,
                       outcome |-> outcome, cancelled |-> poll.cancelled,
                       prev |-> IF ev.op = "pollReturn" /\ poll.pos > 1
                                  THEN ev.outcome ELSE None,
                       calls |-> calls]
        /\ poll' = IF next = 0 THEN NoPass ELSE [poll EXCEPT !.pos = next]
  /\ UNCHANGED <<pendingVars, busy, idleTimers, leakedTimers, tabVars, gateVars>>

\* the collaborator call of the pass answers for the workspace it is at
\* (ev.prev: the answer for the workspace before it, when that was the
\* step before)
PollReturn(outcome) ==
  /\ poll.pos > 0
  /\ LET w == wsList[poll.pos]
         next == NextPos(poll.pos)
     IN /\ \E calls \in SeqsUpTo({[workspaceId |-> w, workspacePath |-> workspacePath(w)]}, 1) :
             /\ PollProcess(w, outcome, poll.cancelled, calls)
             /\ ev' = [op |-> "pollReturn", kind |-> poll.kind, ws |-> w,
                       outcome |-> outcome, cancelled |-> poll.cancelled,
                       prev |-> IF ev.op = "pollReturn" /\ poll.pos > 1
                                  THEN ev.outcome ELSE None,
                       calls |-> calls]
        /\ poll' = IF next = 0 THEN NoPass ELSE [poll EXCEPT !.pos = next]
  /\ UNCHANGED <<pendingVars, busy, idleTimers, leakedTimers, tabVars, gateVars>>

\* the effects are cleaned up and run again (a dependency changed): the
\* listeners are removed, the polls of the old effects are cancelled, the
\* timers of the old idleTimers map stay armed; the new activity listener
\* is told the current busy flag at once
Resubscribe ==
  /\ leakedTimers' = [w \in WorkspaceIds |-> leakedTimers[w] \/ idleTimers[w]]
  /\ idleTimers' = [w \in WorkspaceIds |-> ~busy[w]]
  /\ poll' = IF poll.pos > 0 THEN [poll EXCEPT !.cancelled = TRUE] ELSE poll
  /\ UNCHANGED <<reviewVars, storeVars, statusMap, busy, tabVars, gateVars>>
  /\ ev' = [op |-> "resubscribe", calls |-> <<>>]

\* the board just mounted: statusMap = getAll(), every listener subscribed
\* (the activity listener was told "idle" and armed its timer), no pass yet
BoardInit ==
  /\ statusMap = read
  /\ busy = [w \in WorkspaceIds |-> FALSE]
  /\ idleTimers = [w \in WorkspaceIds |-> TRUE]
  /\ leakedTimers = [w \in WorkspaceIds |-> FALSE]
  /\ poll = NoPass

\* ------------------------------------------------------------------------
\* Tab registry (workspaceProviderTabs.ts)
\* ------------------------------------------------------------------------
\* the workspaces whose tab collection the model follows
TabWorkspaces == {"ws1"}

\* isValidProviderId: the ids of the provider registry
ValidProviders == {"codex", "claude"}
Providers == ValidProviders \cup {"bogus"}
isValidProviderId(provider) == provider \in ValidProviders

\* tab ids a caller may name
TabIds == {"codex", "claude", "codex-review", "claude-review", "tab1", "tab9"}

\* workspaceStates.get() of an absent key, and the null of loadFromStorage
NoTabs == [tabs |-> <<>>, activeId |-> "undefined"]

\* localStorage.getItem() results: no entry, text that is not JSON, or a
\* stored object; an item of `tabs` carries isReview only when it is true
NoEntry == [kind |-> "absent"]
StoredSamples ==
  { NoEntry,
    [kind |-> "malformed"],
    [kind |-> "json",
     tabs |-> <<[id |-> "codex", provider |-> "codex", isReview |-> FALSE],
                [id |-> "claude", provider |-> "claude", isReview |-> FALSE]>>,
     activeId |-> "claude"],
    [kind |-> "json",
     tabs |-> <<[id |-> "tab1", provider |-> "bogus", isReview |-> FALSE],
                [id |-> "tab1", provider |-> "claude", isReview |-> FALSE],
                [id |-> "", provider |-> "claude", isReview |-> FALSE]>>,
     activeId |-> "tab9"] }

normalizeProvider(provider, fallback) ==
  IF isValidProviderId(provider) THEN provider
  ELSE IF isValidProviderId(fallback) THEN fallback
  ELSE "codex"

\* `${tab.provider}:${tab.isReview ? 'review' : 'normal'}`
TabKey(tab) == <<tab.provider, tab.isReview>>

\* filter keeping the first tab of each key, in order
RECURSIVE DedupeFrom(_, _)
DedupeFrom(tabs, seen) ==
  IF tabs = <<>> THEN <<>>
  ELSE IF TabKey(Head(tabs)) \in seen
         THEN DedupeFrom(Tail(tabs), seen)
         ELSE <<Head(tabs)>> \o DedupeFrom(Tail(tabs), seen \cup {TabKey(Head(tabs))})

DedupeTabs(tabs) == DedupeFrom(tabs, {})

HasId(tabs, id) == \E i \in DOMAIN tabs : tabs[i].id = id

\* Array.prototype.findIndex, 1-based (0: not found)
FindIndex(tabs, id) ==
  IF HasId(tabs, id) THEN CHOOSE i \in DOMAIN tabs :
                             tabs[i].id = id /\ \A j \in 1..(i - 1) : tabs[j].id # id
  ELSE 0

\* loadFromStorage: the state read from a stored entry, NoTabs for null.
\* The mapped tabs keep id, provider and createdAt only.
loadFromStorage(entry) ==
  IF entry.kind # "json" THEN NoTabs
  ELSE LET item(i) == entry.tabs[i]
           tabs == [i \in DOMAIN entry.tabs |->
                      LET provider == normalizeProvider(item(i).provider, "codex")
                      IN [id |-> IF item(i).id # "" THEN item(i).id ELSE provider,
                          provider |-> provider,
                          isReview |-> FALSE]]
           unique == DedupeTabs(tabs)
       IN IF unique = <<>> THEN NoTabs
          ELSE [tabs |-> unique,
                activeId |-> IF HasId(unique, entry.activeId)
                               THEN entry.activeId ELSE unique[1].id]

\* saveToStorage: JSON.stringify(state)
Stored(state) == [kind |-> "json", tabs |-> state.tabs, activeId |-> state.activeId]

\* createDefaultState
DefaultState(fallbackProvider) ==
  LET provider == normalizeProvider(fallbackProvider, "codex")
  IN [tabs |-> <<[id |-> provider, provider |-> provider, isReview |-> FALSE]>>,
      activeId |-> provider]

\* ensureWorkspaceState: the state it returns ...
Ensured(w, fallbackProvider) ==
  IF workspaceStates[w] # NoTabs THEN workspaceStates[w]
  ELSE IF loadFromStorage(tabStorage[w]) # NoTabs THEN loadFromStorage(tabStorage[w])
  ELSE DefaultState(fallbackProvider)

\* ... and the stored entry it leaves (createDefaultState saves)
EnsuredStorage(w, fallbackProvider) ==
  IF workspaceStates[w] = NoTabs /\ loadFromStorage(tabStorage[w]) = NoTabs
    THEN Stored(DefaultState(fallbackProvider))
    ELSE tabStorage[w]

\* an operation that returns after ensureWorkspaceState
OnlyEnsure(w, fallbackProvider) ==
  /\ workspaceStates' = [workspaceStates EXCEPT ![w] = Ensured(w, fallbackProvider)]
  /\ tabStorage' = [tabStorage EXCEPT ![w] = EnsuredStorage(w, fallbackProvider)]

\* updateWorkspaceState committing the mutated draft as it is
CommittedAsMutated(draft, fallbackProvider) == draft

\* updateWorkspaceState after mutate(draft): normalise, dedupe, reset an
\* empty collection to the default, repair activeId; the committed state
Committed(draft, fallbackProvider) ==
  LET normalised == [i \in DOMAIN draft.tabs |->
                       [draft.tabs[i] EXCEPT
                          !.provider = normalizeProvider(@, fallbackProvider)]]
      tabs == DedupeTabs(normalised)
  IN IF tabs = <<>> THEN DefaultState(fallbackProvider)
     ELSE [tabs |-> tabs,
           activeId |-> IF draft.activeId # None /\ HasId(tabs, draft.activeId)
                          THEN draft.activeId ELSE tabs[1].id]

\* updateWorkspaceState: commit and persist
updateWorkspaceState(w, fallbackProvider, draft) ==
  LET next == Committed(draft, fallbackProvider)
  IN /\ workspaceStates' = [workspaceStates EXCEPT ![w] = next]
     /\ tabStorage' = [tabStorage EXCEPT ![w] = Stored(next)]

\* the mutation of addTab leaving the active tab alone when the tab exists
AddTabDraftNoActivate(draft, provider) ==
  IF \E i \in DOMAIN draft.tabs :
       draft.tabs[i].provider = provider /\ ~draft.tabs[i].isReview
    THEN draft
    ELSE [tabs |-> Append(draft.tabs,
                          [id |-> provider, provider |-> provider, isReview |-> FALSE]),
          activeId |-> provider]

\* the mutation of addTab
AddTabDraft(draft, provider) ==
  IF \E i \in DOMAIN draft.tabs :
       draft.tabs[i].provider = provider /\ ~draft.tabs[i].isReview
    THEN [draft EXCEPT !.activeId =
            draft.tabs[CHOOSE i \in DOMAIN draft.tabs :
                         /\ draft.tabs[i].provider = provider /\ ~draft.tabs[i].isReview
                         /\ \A j \in 1..(i - 1) :
                              ~(draft.tabs[j].provider = provider
                                  /\ ~draft.tabs[j].isReview)].id]
    ELSE [tabs |-> Append(draft.tabs,
                          [id |-> provider, provider |-> provider, isReview |-> FALSE]),
          activeId |-> provider]

\* addTab (openProviderTab)
addTab(w, provider, fallbackProvider) ==
  IF ~isValidProviderId(provider) THEN UNCHANGED tabVars
  ELSE updateWorkspaceState(w, fallbackProvider,
                            AddTabDraft(Ensured(w, fallbackProvider), provider))

ReviewTabId(provider) == provider \o "-review"

\* the mutation of addReviewTab
AddReviewTabDraft(draft, provider) ==
  IF \E i \in DOMAIN draft.tabs :
       draft.tabs[i].isReview /\ draft.tabs[i].provider = provider
    THEN [draft EXCEPT !.activeId =
            draft.tabs[CHOOSE i \in DOMAIN draft.tabs :
                         /\ draft.tabs[i].isReview /\ draft.tabs[i].provider = provider
                         /\ \A j \in 1..(i - 1) :
                              ~(draft.tabs[j].isReview
                                  /\ draft.tabs[j].provider = provider)].id]
    ELSE [tabs |-> Append(draft.tabs,
                          [id |-> ReviewTabId(provider), provider |-> provider,
                           isReview |-> TRUE]),
          activeId |-> ReviewTabId(provider)]

\* addReviewTab (openReviewTab, openReviewTabForWorkspace); it returns
\* ReviewTabId(provider), or '' for an unknown provider
addReviewTab(w, provider, fallbackProvider) ==
  IF ~isValidProviderId(provider) THEN UNCHANGED tabVars
  ELSE updateWorkspaceState(w, fallbackProvider,
                            AddReviewTabDraft(Ensured(w, fallbackProvider), provider))

addReviewTabRet(provider) ==
  IF ~isValidProviderId(provider) THEN "" ELSE ReviewTabId(provider)

\* setActive
setActive(w, tabId, fallbackProvider) ==
  LET draft == Ensured(w, fallbackProvider)
  IN updateWorkspaceState(w, fallbackProvider,
       IF HasId(draft.tabs, tabId) THEN [draft EXCEPT !.activeId = tabId] ELSE draft)

\* the mutation of closeTab; idx is the 1-based index found before it
CloseTabDraft(draft, tabId, idx) ==
  LET keep(tab) == tab.id # tabId
      tabs == SelectSeq(draft.tabs, keep)
      fallback == IF idx <= Len(tabs) THEN tabs[idx].id
                  ELSE IF idx - 1 >= 1 /\ idx - 1 <= Len(tabs) THEN tabs[idx - 1].id
                  ELSE IF Len(tabs) >= 1 THEN tabs[1].id
                  ELSE None
  IN [tabs |-> tabs,
      activeId |-> IF draft.activeId = tabId THEN fallback ELSE draft.activeId]

\* closeTab
closeTab(w, tabId, fallbackProvider) ==
  LET state == Ensured(w, fallbackProvider)
      idx == FindIndex(state.tabs, tabId)
  IN IF Len(state.tabs) <= 1 \/ idx = 0
       THEN OnlyEnsure(w, fallbackProvider)
       ELSE updateWorkspaceState(w, fallbackProvider, CloseTabDraft(state, tabId, idx))

\* closeReviewTab
closeReviewTab(w, fallbackProvider) ==
  LET state == Ensured(w, fallbackProvider)
      isReview(tab) == tab.isReview
      reviewTabs == SelectSeq(state.tabs, isReview)
  IN IF reviewTabs = <<>>
       THEN OnlyEnsure(w, fallbackProvider)
       ELSE closeTab(w, reviewTabs[1].id, fallbackProvider)

\* the number of tabs of w with the id tabId
CountId(w, tabId) ==
  Cardinality({i \in DOMAIN workspaceStates[w].tabs :
                 workspaceStates[w].tabs[i].id = tabId})

OpenSurface(w, provider, fallbackProvider) ==
  /\ addTab(w, provider, fallbackProvider)
  /\ UNCHANGED <<reviewVars, storeVars, boardVars, gateVars>>
  /\ ev' = [op |-> "openSurface", ws |-> w, provider |-> provider]

OpenReviewSurface(w, provider, fallbackProvider) ==
  /\ addReviewTab(w, provider, fallbackProvider)
  /\ UNCHANGED <<reviewVars, storeVars, boardVars, gateVars>>
  /\ ev' = [op |-> "openReviewSurface", ws |-> w, provider |-> provider,
            ret |-> addReviewTabRet(provider)]

SetActiveSurface(w, tabId, fallbackProvider) ==
  /\ setActive(w, tabId, fallbackProvider)
  /\ UNCHANGED <<reviewVars, storeVars, boardVars, gateVars>>
  /\ ev' = [op |-> "setActive", ws |-> w]

CloseSurface(w, tabId, fallbackProvider) ==
  /\ closeTab(w, tabId, fallbackProvider)
  /\ UNCHANGED <<reviewVars, storeVars, boardVars, gateVars>>
  /\ ev' = [op |-> "closeSurface", ws |-> w, id |-> tabId, fb |-> fallbackProvider,
            closed |-> CountId(w, tabId)]

CloseReviewSurface(w, fallbackProvider) ==
  /\ closeReviewTab(w, fallbackProvider)
  /\ UNCHANGED <<reviewVars, storeVars, boardVars, gateVars>>
  /\ ev' = [op |-> "closeReviewSurface", ws |-> w, fb |-> fallbackProvider]

\* the renderer is reloaded: the module-level maps start empty, the stored
\* entries stay
ReloadRegistry ==
  /\ workspaceStates' = [w \in WorkspaceIds |-> NoTabs]
  /\ UNCHANGED <<tabStorage, reviewVars, storeVars, boardVars, gateVars>>
  /\ ev' = [op |-> "reload"]

\* a first run: nothing stored yet
TabInit ==
  /\ workspaceStates = [w \in WorkspaceIds |-> NoTabs]
  /\ tabStorage = [w \in WorkspaceIds |-> NoEntry]

\* a run that finds entries left by earlier runs or by other writers
TabInitStored ==
  /\ workspaceStates = [w \in WorkspaceIds |-> NoTabs]
  /\ tabStorage \in [WorkspaceIds -> StoredSamples]
  /\ \A w \in WorkspaceIds \ TabWorkspaces : tabStorage[w] = NoEntry

\* ------------------------------------------------------------------------
\* Review gate (useReviewAgent in MultiAgentWorkspace.tsx)
\* ------------------------------------------------------------------------
\* how many times a workspace view is mounted in a run
MaxMounts == 2

\* no hook instance; mounts and starts count the instances and the review
\* tabs they opened so far
Unmounted(mounts, starts) ==
  [mounted |-> FALSE, autoStart |-> FALSE, reviewEnabled |-> FALSE,
   reviewProvider |-> "claude", autoStartCheckedRef |-> FALSE,
   startedRef |-> FALSE, timer |-> FALSE, mounts |-> mounts, starts |-> starts]

\* the tabs of the raw stored entry that canStartReview filters:
\* tabs.filter(t => !t.isReview)
RawNonReviewTabs(entry) ==
  LET nonReview(t) == ~t.isReview IN SelectSeq(entry.tabs, nonReview)

\* canStartReview: no entry or an entry that does not parse count as a
\* single tab
canStartReview(w, reviewEnabled) ==
  IF ~reviewEnabled THEN FALSE
  ELSE IF tabStorage[w].kind # "json" THEN TRUE
  ELSE Len(RawNonReviewTabs(tabStorage[w])) <= 1

\* startReview without the startedRef test
StartOutcomeUnguarded(w) ==
  IF ~gate[w].reviewEnabled THEN "disabled"
  ELSE IF ~canStartReview(w, gate[w].reviewEnabled) THEN "refused"
  ELSE "started"

\* startReview without the canStartReview test
StartOutcomeUngated(w) ==
  IF ~gate[w].reviewEnabled THEN "disabled"
  ELSE IF gate[w].startedRef THEN "duplicate"
  ELSE "started"

\* startReview: what the call comes to
StartOutcome(w) ==
  IF ~gate[w].reviewEnabled THEN "disabled"
  ELSE IF ~canStartReview(w, gate[w].reviewEnabled) THEN "refused"
  ELSE IF gate[w].startedRef THEN "duplicate"
  ELSE "started"

\* the title of the toast startReview shows (None: no toast)
StartToast(w) ==
  IF StartOutcome(w) = "refused" THEN "Cannot start review"
  ELSE IF StartOutcome(w) = "started" THEN "Review started"
  ELSE None

\* startReview of the hook; g is the hook state the caller leaves
startReviewAgent(w, g, op) ==
  /\ gate[w].starts < MaxMounts
  /\ IF StartOutcome(w) = "started"
       THEN /\ gate' = [gate EXCEPT ![w] = [g EXCEPT !.startedRef = TRUE,
                                                      !.starts = @ + 1]]
            /\ addReviewTab(w, g.reviewProvider, g.reviewProvider)
            /\ reviewRecord' = [reviewRecord EXCEPT ![w] =
                 [status |-> "in-review",
                  tabId |-> IF addReviewTabRet(g.reviewProvider) # ""
                              THEN addReviewTabRet(g.reviewProvider)
                              ELSE ReviewTabId(g.reviewProvider)]]
            /\ reviewPrompt' = [reviewPrompt EXCEPT ![w] = TRUE]
       ELSE /\ gate' = [gate EXCEPT ![w] = g]
            /\ UNCHANGED <<tabVars, reviewRecord, reviewPrompt>>
  /\ ev' = [op |-> op, ws |-> w, result |-> StartOutcome(w),
            toast |-> StartToast(w)]
  /\ UNCHANGED <<reviewVars, storeVars, boardVars>>

\* the auto-start condition with the autoStart option left out
AutoStartArmsAnyMount(w, g) ==
  /\ ~g.autoStartCheckedRef
  /\ isReviewPending(w) /\ g.reviewEnabled /\ canStartReview(w, g.reviewEnabled)

\* the auto-start effect run on hook state g: the hook state and the flag
\* map after it
AutoStartArms(w, g) ==
  /\ g.autoStart /\ ~g.autoStartCheckedRef
  /\ isReviewPending(w) /\ g.reviewEnabled /\ canStartReview(w, g.reviewEnabled)

AutoStartEffect(w, g) ==
  IF ~g.autoStart \/ g.autoStartCheckedRef THEN g
  ELSE [g EXCEPT !.autoStartCheckedRef = TRUE, !.timer = AutoStartArms(w, g)]

AutoStartFlags(w, g) ==
  IF AutoStartArms(w, g) THEN clearReviewPending(readReviewPending, w)
  ELSE readReviewPending

\* the view of w mounts: fresh refs, then the effects run
MountGate(w, autoStart, reviewEnabled, reviewProvider) ==
  LET g == [mounted |-> TRUE, autoStart |-> autoStart,
            reviewEnabled |-> reviewEnabled, reviewProvider |-> reviewProvider,
            autoStartCheckedRef |-> FALSE, startedRef |-> FALSE, timer |-> FALSE,
            mounts |-> gate[w].mounts + 1, starts |-> gate[w].starts]
  IN /\ ~gate[w].mounted
     /\ gate[w].mounts < MaxMounts
     /\ gate' = [gate EXCEPT ![w] = AutoStartEffect(w, g)]
     /\ IF AutoStartArms(w, g) THEN writeReviewPending(AutoStartFlags(w, g))
        ELSE UNCHANGED pendingVars
     /\ ev' = [op |-> "mount", ws |-> w, armed |-> AutoStartArms(w, g)]
     /\ UNCHANGED <<statusVars, reviewVars, boardVars, tabVars, reviewRecord, reviewPrompt>>

\* the view re-renders with a dependency of the auto-start effect changed
\* (autoStart, reviewEnabled, or the identity of startReview through
\* onReviewStateChange or toast): the effect's cleanup clears its timer and
\* the effect runs again
RerenderGate(w, autoStart, reviewEnabled) ==
  LET g == [gate[w] EXCEPT !.autoStart = autoStart,
                           !.reviewEnabled = reviewEnabled,
                           !.timer = FALSE]
  IN /\ gate[w].mounted
     /\ gate' = [gate EXCEPT ![w] = AutoStartEffect(w, g)]
     /\ IF AutoStartArms(w, g) THEN writeReviewPending(AutoStartFlags(w, g))
        ELSE UNCHANGED pendingVars
     /\ ev' = [op |-> "rerender", ws |-> w, armed |-> AutoStartArms(w, g),
               cancelled |-> gate[w].timer]
     /\ UNCHANGED <<statusVars, reviewVars, boardVars, tabVars, reviewRecord, reviewPrompt>>

\* the view unmounts: both cleanups run, the refs go with the instance
UnmountGate(w) ==
  /\ gate[w].mounted
  /\ gate' = [gate EXCEPT ![w] = Unmounted(gate[w].mounts, gate[w].starts)]
  /\ ev' = [op |-> "unmount", ws |-> w, cancelled |-> gate[w].timer]
  /\ UNCHANGED <<reviewVars, storeVars, boardVars, tabVars, reviewRecord, reviewPrompt>>

\* the 500 ms timer of the auto-start effect fires
GateTimerFires(w) ==
  /\ gate[w].mounted /\ gate[w].timer
  /\ startReviewAgent(w, [gate[w] EXCEPT !.timer = FALSE], "autoStart")

\* startReview called from the view (the review button)
ManualStartReview(w) ==
  /\ gate[w].mounted
  /\ startReviewAgent(w, gate[w], "manualStart")

GateInit ==
  /\ gate = [w \in TabWorkspaces |-> Unmounted(0, 0)]
  /\ reviewRecord = [w \in TabWorkspaces |-> NoState]
  /\ reviewPrompt = [w \in TabWorkspaces |-> FALSE]

Init ==
  /\ ReviewInit
  /\ StoreInit
  /\ BoardInit
  /\ TabInit
  /\ GateInit
  /\ ev = [op |-> "init"]

NextReview ==
  \/ \E w \in WorkspaceIds : StartReview(w)
  \/ \E k \in 1..MaxWorks, res \in GitResponsesBrief :
       GitStatusReturn(k, res)
  \/ \E k \in 1..MaxWorks, outcome \in DiffOutcomes :
       FileDiffReturn(k, outcome)
  \/ resetReviewState
  \/ \E w \in TabWorkspaces, l \in Subscribers :
       subscribeToReviewState(w, l)
  \/ \E w \in TabWorkspaces, l \in Subscribers :
       unsubscribeFromReviewState(w, l)

SpecReview == Init /\ [][NextReview]_vars

\* one workspace's pipeline, run after run, with every collaborator outcome
NextPipeline ==
  \/ \E w \in TabWorkspaces : StartReview(w)
  \/ \E w \in TabWorkspaces : StartReviewSyncThrow(w)
  \/ \E k \in 1..MaxWorks, res \in GitResponses : GitStatusReturn(k, res)
  \/ \E k \in 1..MaxWorks, outcome \in DiffOutcomes :
       FileDiffReturn(k, outcome)
  \/ \E w \in TabWorkspaces, l \in Subscribers :
       subscribeToReviewState(w, l)
  \/ \E w \in TabWorkspaces, l \in Subscribers :
       unsubscribeFromReviewState(w, l)

SpecPipeline == Init /\ [][NextPipeline]_vars

\* one workspace's runs, with resets between them and collaborators that
\* always eventually respond: an awaited getGitStatus or getFileDiff call
\* of a computation is eventually answered
NextRuns ==
  \/ \E w \in TabWorkspaces : StartReview(w)
  \/ \E w \in TabWorkspaces : StartReviewSyncThrow(w)
  \/ \E k \in 1..MaxWorks, res \in GitResponsesBrief : GitStatusReturn(k, res)
  \/ \E k \in 1..MaxWorks, outcome \in DiffOutcomes :
       FileDiffReturn(k, outcome)
  \/ resetReviewState

CollaboratorsRespond ==
  \A k \in 1..MaxWorks :
    /\ WF_vars(\E res \in GitResponsesBrief : GitStatusReturn(k, res))
    /\ WF_vars(\E outcome \in DiffOutcomes : FileDiffReturn(k, outcome))

SpecRunsFair == Init /\ [][NextRuns]_vars /\ CollaboratorsRespond

NextBoard ==
  \/ \E w \in WorkspaceIds : DerivedBusy(w)
  \/ \E w \in WorkspaceIds, isBusy \in BOOLEAN : ActivitySignal(w, isBusy)
  \/ \E w \in WorkspaceIds : IdleTimerFires(w)
  \/ \E w \in WorkspaceIds : LeakedTimerFires(w)
  \/ \E w \in WorkspaceIds : PtyExit(w)
  \/ \E target \in KanbanStatus, w \in WorkspaceIds : handleDrop(target, w)
  \/ \E kind \in PollKinds : PollStart(kind)
  \/ \E outcome \in PollOutcomes : PollReturn(outcome)
  \/ Resubscribe

SpecBoard == Init /\ [][NextBoard]_vars

NextTabs ==
  \/ \E w \in TabWorkspaces, provider \in Providers, fb \in Providers :
       OpenSurface(w, provider, fb)
  \/ \E w \in TabWorkspaces, provider \in Providers, fb \in Providers :
       OpenReviewSurface(w, provider, fb)
  \/ \E w \in TabWorkspaces, tabId \in TabIds, fb \in Providers :
       SetActiveSurface(w, tabId, fb)
  \/ \E w \in TabWorkspaces, tabId \in TabIds, fb \in Providers :
       CloseSurface(w, tabId, fb)
  \/ \E w \in TabWorkspaces, fb \in Providers : CloseReviewSurface(w, fb)
  \/ ReloadRegistry

InitStored ==
  /\ ReviewInit
  /\ StoreInit
  /\ BoardInit
  /\ TabInitStored
  /\ GateInit
  /\ ev = [op |-> "init"]

SpecTabs == InitStored /\ [][NextTabs]_vars

NextGate ==
  \/ \E w \in TabWorkspaces, pending \in BOOLEAN :
       CallSetReviewPending(w, pending)
  \/ \E w \in TabWorkspaces, autoStart \in BOOLEAN, reviewEnabled \in BOOLEAN,
        reviewProvider \in ValidProviders :
       MountGate(w, autoStart, reviewEnabled, reviewProvider)
  \/ \E w \in TabWorkspaces, autoStart \in BOOLEAN, reviewEnabled \in BOOLEAN :
       RerenderGate(w, autoStart, reviewEnabled)
  \/ \E w \in TabWorkspaces : UnmountGate(w)
  \/ \E w \in TabWorkspaces : GateTimerFires(w)
  \/ \E w \in TabWorkspaces : ManualStartReview(w)
  \/ \E w \in TabWorkspaces, provider \in ValidProviders :
       OpenSurface(w, provider, "codex")
  \/ \E w \in TabWorkspaces, tabId \in ValidProviders :
       CloseSurface(w, tabId, "codex")
  \/ \E w \in TabWorkspaces : CloseReviewSurface(w, "codex")

SpecGate == Init /\ [][NextGate]_vars

InitCold ==
  /\ ReviewInit
  /\ StoreInitCold
  /\ BoardInit
  /\ TabInit
  /\ GateInit
  /\ ev = [op |-> "init"]

NextStore ==
  \/ \E w \in WorkspaceIds : CallGetStatus(w)
  \/ \E w \in WorkspaceIds, status \in KanbanStatus :
       CallSetStatus(w, status)
  \/ \E w \in WorkspaceIds : CallIsReviewPending(w)
  \/ \E w \in WorkspaceIds, pending \in BOOLEAN :
       CallSetReviewPending(w, pending)
  \/ ReloadStore

SpecStore == InitCold /\ [][NextStore]_vars

\* the review pipeline beside the writers of the status store: cards are
\* dropped (a drop on done starts a review through autoStartReviewIfDone),
\* flags are set, reviews are started directly, collaborators answer
NextLifecycle ==
  \/ \E target \in KanbanStatus, w \in WorkspaceIds : handleDrop(target, w)
  \/ \E w \in TabWorkspaces, pending \in BOOLEAN :
       CallSetReviewPending(w, pending)
  \/ \E w \in WorkspaceIds : StartReview(w)
  \/ \E k \in 1..MaxWorks, res \in GitResponsesBrief :
       GitStatusReturn(k, res)
  \/ \E k \in 1..MaxWorks, outcome \in DiffOutcomes :
       FileDiffReturn(k, outcome)

SpecLifecycle == Init /\ [][NextLifecycle]_vars

\* ------------------------------------------------------------------------
\* Claims
\* ------------------------------------------------------------------------
BoardArgs(w) == [workspaceId |-> w, workspacePath |-> workspacePath(w)]

\* the computations for w started since the last reset that have not finished
LiveUnfinished(w) ==
  {k \in WorkIds : works[k].ws = w /\ Unfinished(k) /\ ~works[k].orphaned}

\* C1: a startReview call for w issued while an earlier startReview for w
\* (made since the last reset) has not finished returns the promise of that
\* earlier computation, so both resolve to the same ReviewState, and it does
\* not invoke getGitStatus again.
C1_SingleFlight ==
  [][\A w \in WorkspaceIds :
       (ev'.op = "startReview" /\ ev'.ws = w /\ LiveUnfinished(w) # {})
         => /\ \A k \in LiveUnfinished(w) : ev'.ret = [kind |-> "promise", work |-> k]
            /\ gitStatusCalls' = gitStatusCalls]_vars

\* C1, the case: a call was made while a computation started since the last
\* reset was unfinished, and that computation is no longer registered
C1_CallDuringUnregisteredWork ==
  /\ ev.op = "startReview"
  /\ ~ev.started
  /\ \E k \in LiveUnfinished(ev.ws) : ev.ret # [kind |-> "promise", work |-> k]

\* C2: once the stored ReviewState of w is success it is final until
\* resetReviewState: no step other than a reset changes it, and a
\* startReview call returns that very state and invokes no collaborator.
C2_SuccessIsFinal ==
  [][\A w \in WorkspaceIds :
       (states[w].status = "success" /\ ev'.op # "reset")
         => /\ states'[w] = states[w]
            /\ (ev'.op = "startReview" /\ ev'.ws = w)
                 => /\ ev'.ret = [kind |-> "value", state |-> states[w]]
                    /\ gitStatusCalls' = gitStatusCalls
                    /\ fileDiffCalls' = fileDiffCalls]_vars

\* C2, the case: two computations for one workspace have both ended in
\* success and the stored state is the second one's
C2_SecondSuccess ==
  \E w \in WorkspaceIds, j, k \in WorkIds :
    /\ j # k
    /\ works[j].ws = w /\ works[k].ws = w
    /\ works[j].result.status = "success"
    /\ works[k].result.status = "success"
    /\ ~works[k].orphaned
    /\ works[j].orphaned

\* C3: every step that takes a workspace into ready-for-review (done)
\* leaves its pending-review flag set.
C3_PendingAfterTransition ==
  [][\A w \in WorkspaceIds :
       (getStatus(w) # "done" /\ cache'[w] = "done") => reviewPendingCache'[w] = TRUE]_vars

\* C6: when an idle timer fires for a workspace whose status is in-progress
\* the status becomes done; and a busy report cancels every pending idle
\* timer of the workspace, so that no timer armed before it can fire.
C6_IdleSettle ==
  [][\A w \in WorkspaceIds :
       /\ (ev'.op \in {"idleTimer", "leakedTimer"} /\ ev'.ws = w
             /\ getStatus(w) = "in-progress")
            => cache'[w] = "done"
       /\ (ev'.op = "activity" /\ ev'.ws = w /\ ev'.isBusy)
            => ~idleTimers'[w] /\ ~leakedTimers'[w]]_vars

\* C6, the case: a timer armed by an earlier subscription fired after a
\* busy report and moved the workspace to done
C6_TimerSurvivesBusy ==
  /\ ev.op = "leakedTimer"
  /\ busy[ev.ws]
  /\ ev.calls # <<>>

\* the operations that ask for a move of ev.ws into done
IsDoneRequest(e) ==
  \/ e.op = "drop" /\ e.target = "done"
  \/ e.op = "pollReturn" /\ e.outcome = "positive" /\ ~e.cancelled
  \/ e.op \in {"idleTimer", "leakedTimer", "ptyExit"}

\* C8: a request to move a workspace that is already done into done starts
\* no review, leaves the review pipeline and the pending flags as they
\* were, and leaves the status done.
C8_IdempotentTransition ==
  [][\A w \in WorkspaceIds :
       (getStatus(w) = "done" /\ IsDoneRequest(ev') /\ ev'.ws = w)
         => /\ ev'.calls = <<>>
            /\ UNCHANGED reviewVars
            /\ reviewPendingCache' = reviewPendingCache
            /\ cache'[w] = "done"]_vars

\* C8, the case: a card was dropped on the done column while done
C8_RepeatedDrop ==
  /\ ev.op = "drop" /\ ev.target = "done" /\ ev.calls = <<>>
  /\ inflight[ev.ws] # NoWork

C10_PollPromotes ==
  [][\A w \in WorkspaceIds :
       (ev'.op = "pollReturn" /\ ev'.ws = w /\ ev'.outcome = "positive"
          /\ ~ev'.cancelled /\ ev' # ev)
         => IF busy[w]
              THEN /\ cache'[w] = cache[w]
                   /\ statusMap'[w] = statusMap[w]
                   /\ ev'.calls = <<>>
                   /\ UNCHANGED reviewVars
              ELSE cache'[w] = "done"]_vars

\* C10, the case: a positive answer moved an idle workspace to done and
\* started its review
C10_PollMovedWorkspace ==
  /\ ev.op = "pollReturn" /\ ev.outcome = "positive" /\ ~ev.cancelled
  /\ ~busy[ev.ws]
  /\ cache[ev.ws] = "done"
  /\ ev.calls # <<>>

\* the collection a reader of the registry obtains for w
\* (getSnapshot, getReviewTab and every operation go through
\* ensureWorkspaceState)
Collection(w, fallbackProvider) == Ensured(w, fallbackProvider)

WellFormedTabs(state) ==
  /\ Len(state.tabs) >= 1
  /\ \A i, j \in DOMAIN state.tabs :
       TabKey(state.tabs[i]) = TabKey(state.tabs[j]) => i = j
  /\ HasId(state.tabs, state.activeId)

\* C7: after any sequence of openSurface, openReviewSurface, setActive,
\* closeSurface and closeReviewSurface calls on a workspace's tab collection,
\* the collection has at least one tab, no two tabs share a
\* (provider, isReview) pair, and activeId is the id of one of its tabs.
C7_RegistryInvariant ==
  \A w \in TabWorkspaces, fb \in Providers : WellFormedTabs(Collection(w, fb))

\* a closeSurface call has just removed every tab of a collection whose
\* stored tabs shared one id, and the collection is back to a single tab
C7_ClosedSharedId ==
  /\ ev.op = "closeSurface"
  /\ tabStorage["ws1"].kind = "json"
  /\ Len(workspaceStates["ws1"].tabs) = 1
  /\ workspaceStates["ws1"].tabs[1].id = "codex"
  /\ workspaceStates["ws1"].tabs[1].provider = "codex"
  /\ ev.closed = 2

\* the non-review surfaces of the collection of w
NonReviewSurfaces(w) ==
  LET nonReview(t) == ~t.isReview
  IN Len(SelectSeq(Collection(w, "codex").tabs, nonReview))

HasReviewSurface(w, state) ==
  \E i \in DOMAIN state.tabs : state.tabs[i].isReview

\* C4: for every workspace, canStartReview equals reviewEnabled AND
\* (isReviewPending(workspaceId) OR number of non-review surfaces <= 1): with
\* review enabled and 2 non-review surfaces it is true when the pending flag
\* is set and false when it is not, and with at most 1 non-review surface it
\* is true.
C4_CanStartReview ==
  \A w \in TabWorkspaces :
    gate[w].mounted =>
      (canStartReview(w, gate[w].reviewEnabled)
         <=> (gate[w].reviewEnabled
                /\ (isReviewPending(w) \/ NonReviewSurfaces(w) <= 1)))

\* review enabled, two non-review surfaces, the pending flag set, and
\* canStartReview false
C4_PendingButRefused ==
  /\ gate["ws1"].mounted /\ gate["ws1"].reviewEnabled
  /\ isReviewPending("ws1")
  /\ NonReviewSurfaces("ws1") = 2
  /\ ~canStartReview("ws1", TRUE)

\* C5: when the gate is mounted with autoStart=true, review enabled and the
\* pending flag set for the workspace, then after the fixed 500 ms delay the
\* review surface is opened exactly once for that workspace and the pending
\* flag is false, no matter how many non-review surfaces are open: such a
\* mount clears the flag and arms the timer, and the timer's firing opens the
\* review surface, once.
C5_AutoStartWhenPending ==
  [][\A w \in TabWorkspaces :
       /\ (/\ ev'.op = "mount" /\ ev'.ws = w
           /\ gate'[w].autoStart /\ gate'[w].reviewEnabled /\ isReviewPending(w))
          => (gate'[w].timer /\ ~isReviewPending(w)')
       /\ (ev'.op = "autoStart" /\ ev'.ws = w)
          => (/\ HasReviewSurface(w, workspaceStates'[w])
              /\ gate'[w].starts = gate[w].starts + 1)]_vars

\* the gate mounted with autoStart, review enabled and the flag set, two
\* non-review surfaces open: no timer is armed and the flag is still set
C5_MountedStillPending ==
  /\ ev.op = "mount"
  /\ gate["ws1"].autoStart /\ gate["ws1"].reviewEnabled
  /\ isReviewPending("ws1")
  /\ ~gate["ws1"].timer
  /\ NonReviewSurfaces("ws1") = 2
  /\ ~HasReviewSurface("ws1", Collection("ws1", "codex"))

C12_NoAutoStart ==
  [][\A w \in TabWorkspaces :
       /\ (/\ ev'.op \in {"mount", "rerender"} /\ ev'.ws = w
           /\ (\/ ~gate'[w].reviewEnabled
               \/ ~gate'[w].autoStart
               \/ ~isReviewPending(w)))
          => (/\ ~gate'[w].timer
              /\ UNCHANGED <<reviewPendingCache, tabVars, reviewRecord>>)
       /\ (ev'.op = "autoStart" /\ ev'.ws = w)
          => (gate[w].autoStart /\ gate[w].reviewEnabled)]_vars

\* the gate mounted with review enabled and the flag set but autoStart
\* false: the flag is still set and no timer is armed
C12_MountedWithoutAutoStart ==
  /\ ev.op = "mount" /\ ev.ws = "ws1"
  /\ gate["ws1"].reviewEnabled /\ ~gate["ws1"].autoStart
  /\ isReviewPending("ws1")
  /\ NonReviewSurfaces("ws1") <= 1
  /\ ~gate["ws1"].timer

\* the computations of w that have not finished, whenever they were started
UnfinishedFor(w) == {k \in WorkIds : works[k].ws = w /\ Unfinished(k)}

\* C13: in every reachable state of the review pipeline, reached by any
\* interleaving of startReview calls, collaborator completions and
\* resetReviewState calls, at most one review computation is in flight for
\* any given workspace id.
C13_AtMostOneInFlight ==
  \A w \in WorkspaceIds : Cardinality(UnfinishedFor(w)) <= 1

\* startReview has just started a computation for ws1 while one started
\* before a reset is still waiting for its collaborator
C13_StartedBesideOrphan ==
  /\ ev.op = "startReview" /\ ev.ws = "ws1" /\ ev.started
  /\ \E k \in UnfinishedFor("ws1") : works[k].orphaned
  /\ \E k \in UnfinishedFor("ws1") : ~works[k].orphaned

\* the step is getGitStatus failing for computation k
GitStatusFails(k) ==
  ev'.op = "gitStatusReturn" /\ ev'.work = k /\ ~ev'.res.success

\* C14: when the VCS-status collaborator fails (returns success:false or
\* rejects), startReview resolves (never rejects) to a state with status
\* error whose error field carries the failure message, with no files,
\* without invoking the diff collaborator, and without starting any
\* automatic retry.
C14_GitFailure ==
  [][\A k \in WorkIds :
       GitStatusFails(k) =>
         /\ works'[k].pc = "done"
         /\ works'[k].result.status = "error"
         /\ works'[k].result.files = <<>>
         /\ ev'.res.error # "" => works'[k].result.error = ev'.res.error
         /\ ev'.res.error = "" =>
              works'[k].result.error = "Unable to collect git status for review"
         /\ UNCHANGED <<fileDiffCalls, gitStatusCalls>>
         /\ Len(works') = Len(works)
         /\ inflight'[works[k].ws] = NoWork]_vars

\* getGitStatus has rejected and the workspace's state is the error state
\* with the rejection's message
C14_RejectionRecorded ==
  /\ ev.op = "gitStatusReturn" /\ ev.res.rejected
  /\ works[ev.work].result.status = "error"
  /\ works[ev.work].result.error = "spawn git ENOENT"
  /\ states[ev.ws] = works[ev.work].result

\* a change that is not internal bookkeeping
Reviewable(c) ==
  /\ ~(Len(c.path) >= 2 /\ c.path[1] = ".emdash")
  /\ c.path # <<"PLANNING.md">>

\* the changes getGitStatus reported to the computation that ends in this step
ReportedTo(k) ==
  IF ev'.op = "gitStatusReturn" THEN ev'.res.changes ELSE works[k].reported

\* path, additions and deletions of a recorded file
AsChange(file) ==
  [path |-> file.path, additions |-> file.additions, deletions |-> file.deletions]

Total(files, field, n) ==
  LET sum[i \in 0..n] == IF i = 0 THEN 0 ELSE sum[i - 1] + files[i][field]
  IN sum[n]

\* the step ends computation k after getGitStatus succeeded
EndsAfterGitSuccess(k) ==
  /\ \/ ev'.op = "fileDiffReturn"
     \/ ev'.op = "gitStatusReturn" /\ ev'.res.success
  /\ ev'.work = k /\ works[k].pc # "done" /\ works'[k].pc = "done"

\* C15: when VCS status succeeds, the resolved ReviewState has status
\* success, its files are exactly the reported changes whose path does not
\* start with '.emdash/' and is not 'PLANNING.md', in the reported order, and
\* its summary states the number of those files and the sums of their
\* additions and deletions, or is the 'no local changes' message when that
\* list is empty.
C15_SuccessSummary ==
  [][\A k \in WorkIds :
       EndsAfterGitSuccess(k) =>
         LET final == works'[k].result
             n == Len(final.files)
         IN /\ final.status = "success"
            /\ [i \in 1..n |-> AsChange(final.files[i])]
                 = SelectSeq(ReportedTo(k), Reviewable)
            /\ n = 0 => final.summary = <<"No local changes to review.">>
            /\ n > 0 =>
                 /\ final.summary[1] = n
                 /\ final.summary[4] = Total(final.files, "additions", n)
                 /\ final.summary[5] = Total(final.files, "deletions", n)]_vars

\* a review of README.md and src/index.ts, reported in that order, has ended
\* with both files and their totals
C15_TwoFilesSummarised ==
  /\ ev.op = "fileDiffReturn"
  /\ works[ev.work].pc = "done"
  /\ Len(works[ev.work].result.files) = 2
  /\ works[ev.work].result.files[1].path = <<"README.md">>
  /\ works[ev.work].result.files[2].path = <<"src", "index.ts">>
  /\ works[ev.work].result.summary = <<2, "files", "changed", 7, 6>>

\* C16: a failure of the diff collaborator for an individual file
\* (rejection or success:false) does not abort the review: the file is still
\* recorded (without a diff, with its additions and deletions), diffs for the
\* remaining files are still fetched, and the review ends in success.
C16_DiffFailureTolerated ==
  [][\A k \in WorkIds :
       (ev'.op = "fileDiffReturn" /\ ev'.work = k /\ ev'.outcome # "diff") =>
         LET change == Head(works[k].todo)
             w == works[k].ws
         IN /\ works'[k].files =
                 Append(works[k].files,
                        [path |-> change.path, additions |-> change.additions,
                         deletions |-> change.deletions, diff |-> None])
            /\ Len(works[k].todo) > 1 =>
                 /\ works'[k].pc = "fileDiff"
                 /\ works'[k].todo = Tail(works[k].todo)
                 /\ fileDiffCalls'[w] = fileDiffCalls[w] + 1
            /\ Len(works[k].todo) = 1 =>
                 /\ works'[k].pc = "done"
                 /\ works'[k].result.status = "success"
                 /\ works'[k].result.files = works'[k].files]_vars

\* a review has ended in success with two files, the first recorded without
\* a diff after its diff call was rejected or failed, the second with one
C16_FirstDiffMissing ==
  /\ ev.op = "fileDiffReturn"
  /\ works[ev.work].pc = "done"
  /\ works[ev.work].result.status = "success"
  /\ Len(works[ev.work].result.files) = 2
  /\ works[ev.work].result.files[1].diff = None
  /\ works[ev.work].result.files[1].additions > 0
  /\ works[ev.work].result.files[2].diff = "diff"

C18_FlagConsumedOnlyByStart ==
  [][\A w \in TabWorkspaces :
       /\ (/\ ev'.op \in {"mount", "rerender"} /\ ev'.ws = w
           /\ isReviewPending(w) /\ ~isReviewPending(w)')
          => gate'[w].timer
       /\ (gate[w].timer /\ ~gate'[w].timer)
          => (/\ ev'.op = "autoStart" /\ ev'.result = "started"
              /\ HasReviewSurface(w, workspaceStates'[w]))]_vars

\* the gate cleared the flag and was unmounted before the delay elapsed:
\* the flag is gone and no review surface was opened
C18_FlagLostOnUnmount ==
  /\ ev.op = "unmount" /\ ev.ws = "ws1" /\ ev.cancelled
  /\ ~isReviewPending("ws1")
  /\ gate["ws1"].starts = 0
  /\ ~HasReviewSurface("ws1", Collection("ws1", "codex"))

\* C19: within one mount of the gate for a workspace, the review surface is
\* opened and the in-review record is published at most once, however many
\* auto-start evaluations and manual start requests occur: a start happens
\* only with the 'already started' guard clear and sets it, the gate opens
\* nothing and publishes nothing otherwise, and the guard stays set until
\* the unmount; after unmount the guard is cleared, so a start is possible
\* again on the next mount.
C19_OncePerMount ==
  [][\A w \in TabWorkspaces :
       /\ (ev'.op \in {"autoStart", "manualStart"} /\ ev'.ws = w) =>
            IF ev'.result = "started"
              THEN /\ ~gate[w].startedRef /\ gate'[w].startedRef
                   /\ gate'[w].starts = gate[w].starts + 1
                   /\ reviewRecord'[w].status = "in-review"
              ELSE UNCHANGED <<tabVars, reviewRecord, reviewPrompt>>
                     /\ gate'[w].starts = gate[w].starts
       /\ (ev'.op \notin {"autoStart", "manualStart"})
            => (reviewRecord'[w] = reviewRecord[w]
                  /\ gate'[w].starts = gate[w].starts)
       /\ (gate[w].startedRef /\ ev'.op # "unmount") => gate'[w].startedRef
       /\ (ev'.op \in {"mount", "unmount"} /\ ev'.ws = w) => ~gate'[w].startedRef]_vars

\* the second mount of the gate has started a review again
C19_StartedAgainAfterRemount ==
  /\ ev.op = "manualStart" /\ ev.ws = "ws1" /\ ev.result = "started"
  /\ gate["ws1"].mounts = 2
  /\ gate["ws1"].starts = 2

\* C20: exit settle: when a process-exit signal arrives for a workspace
\* whose status is active and which is not busy at that moment, the status
\* becomes ready-for-review in the same step without waiting for the grace
\* timer; if the workspace is busy at that moment the status is unchanged.
C20_ExitSettle ==
  [][\A w \in WorkspaceIds :
       (ev'.op = "ptyExit" /\ ev'.ws = w) =>
         /\ (getStatus(w) = "in-progress" /\ ~busy[w])
              => (cache'[w] = "done" /\ statusMap'[w] = "done")
         /\ busy[w] => UNCHANGED <<cache, statusMap>>]_vars

\* the process of an active, idle workspace exited while its grace timer
\* was still armed, and the workspace is ready for review
C20_ExitedBeforeTimer ==
  /\ ev.op = "ptyExit" /\ ev.ws = "ws1"
  /\ ~busy["ws1"] /\ idleTimers["ws1"]
  /\ getStatus("ws1") = "done"
  /\ Len(ev.calls) = 1

WithoutIndex(tabs, idx) ==
  [i \in 1..(Len(tabs) - 1) |-> IF i < idx THEN tabs[i] ELSE tabs[i + 1]]

\* C22: closeSurface(id) leaves the collection unchanged when it holds a
\* single tab or when id is unknown; otherwise it removes exactly that tab;
\* if the removed tab was active, the new active tab is the one that followed
\* it, or the one that preceded it when it was last; if it was not active,
\* activeId is unchanged.
C22_CloseSurface ==
  [][\A w \in TabWorkspaces, id \in TabIds, fb \in Providers :
       (ev'.op = "closeSurface" /\ ev'.ws = w /\ ev'.id = id /\ ev'.fb = fb) =>
         LET before == Collection(w, fb)
             after == workspaceStates'[w]
             idx == FindIndex(before.tabs, id)
         IN IF Len(before.tabs) <= 1 \/ idx = 0
              THEN after = before
              ELSE /\ after.tabs = WithoutIndex(before.tabs, idx)
                   /\ after.activeId =
                        IF before.activeId # id THEN before.activeId
                        ELSE IF idx < Len(before.tabs) THEN before.tabs[idx + 1].id
                        ELSE before.tabs[idx - 1].id]_vars

\* closing the id of a review surface removed two tabs: the review surface
\* and a tab reloaded from it
C22_ClosedTwoTabs ==
  /\ ev.op = "closeSurface" /\ ev.id = "claude-review"
  /\ ev.closed = 2
  /\ ~HasId(workspaceStates["ws1"].tabs, "claude-review")

\* C23: closeReviewSurface removes the review surface whenever the
\* collection contains one and changes nothing when it contains none; after
\* the call the collection contains no review surface.
C23_CloseReviewSurface ==
  [][\A w \in TabWorkspaces, fb \in Providers :
       (ev'.op = "closeReviewSurface" /\ ev'.ws = w /\ ev'.fb = fb) =>
         LET before == Collection(w, fb)
             after == workspaceStates'[w]
         IN /\ ~HasReviewSurface(w, after)
            /\ ~HasReviewSurface(w, before) => after = before]_vars

\* closeReviewSurface was called on a collection whose only tab is a review
\* surface, and the review surface is still there
C23_LoneReviewSurfaceKept ==
  /\ ev.op = "closeReviewSurface"
  /\ Len(workspaceStates["ws1"].tabs) = 1
  /\ workspaceStates["ws1"].tabs[1].isReview

\* the indexes of the tabs of a kind (provider, review or not)
TabsOfKind(state, provider, review) ==
  {i \in DOMAIN state.tabs :
     state.tabs[i].provider = provider /\ state.tabs[i].isReview = review}

C25_SetStatusIdempotent ==
  [][(ev'.op = "setStatus" /\ ev'.again) =>
       /\ ev'.writes = 0
       /\ read' = read
       /\ readReviewPending' = readReviewPending]_vars

\* the second of two equal setStatus calls has written the stored item again
C25_SecondCallWrote ==
  /\ ev.op = "setStatus" /\ ev.again /\ ev.writes = 1
  /\ ev.ws = "ws1" /\ ev.status = "done"
  /\ statusItem.kind = "json" /\ statusItem.map["ws1"] = "done"

\* the workspace has no status: none stored, none written in this session
NeverWritten(w) ==
  /\ holdsObject(statusItem) => statusItem.map[w] = None
  /\ cache # NullCache => cache[w] = None

\* C26: for every workspace id that has never been written, getStatus
\* returns not-started and does not throw, whatever the durable store holds
\* for the status key (absent, unparsable, not an object, or a store that
\* throws on read).
C26_DefaultStatus ==
  [][\A w \in WorkspaceIds :
       (ev'.op = "getStatus" /\ ev'.ws = w /\ NeverWritten(w)) =>
         (ev'.ret = "todo" /\ ~ev'.threw)]_vars

\* the first read of a session found a store that throws and returned
\* not-started
C26_ReadFromThrowingStore ==
  /\ ev.op = "getStatus" /\ ev.ws = "ws1" /\ ev.ret = "todo"
  /\ statusItem.kind = "throws"
  /\ cache = EmptyMap

\* C27: the review pipeline never changes lifecycle state: no startReview
\* call and no review outcome (running, success or error) modifies any
\* workspace's status in the status store or any pending-review flag; a
\* transition that starts a review stores its own target status and nothing
\* else.
C27_ReviewLeavesLifecycle ==
  [][/\ ev'.op \in {"startReview", "gitStatusReturn", "fileDiffReturn"}
          => UNCHANGED <<cache, reviewPendingCache, statusItem, pendingItem>>
     /\ ev'.op = "drop" =>
          /\ cache' = setStatus(cache, ev'.ws, ev'.target)
          /\ UNCHANGED <<reviewPendingCache, pendingItem>>]_vars

\* a review started by a drop on done ended in error while the workspace
\* stayed ready for review with its pending flag set
C27_ErrorBesideDone ==
  /\ ev.op = "gitStatusReturn" /\ ev.ws = "ws1"
  /\ states["ws1"].status = "error"
  /\ getStatus("ws1") = "done"
  /\ isReviewPending("ws1")

\* C28: for every workspace, the in-flight map holds an entry exactly while
\* its stored ReviewState status is running: when a computation has ended in
\* success or error, however getGitStatus behaved (resolved, returned
\* success:false, rejected, or threw when called), no in-flight entry for
\* that workspace remains.
C28_InflightIffRunning ==
  \A w \in WorkspaceIds : (inflight[w] # NoWork) <=> (states[w].status = "running")

\* getGitStatus threw when called: the review is in error and its finished
\* computation is still registered as in flight
C28_EntryAfterSyncThrow ==
  /\ ev.op = "startReview" /\ ev.ws = "ws1"
  /\ states["ws1"].status = "error"
  /\ inflight["ws1"] # NoWork
  /\ works[inflight["ws1"]].pc = "done"

\* C29: after resetReviewState, a computation that was in flight before the
\* reset has no further effect on the store: when it completes it neither
\* writes a ReviewState for its workspace nor removes the in-flight entry of
\* a computation started for that workspace after the reset.
C29_OrphanHasNoEffect ==
  [][\A k \in WorkIds :
       (/\ ev'.op \in {"gitStatusReturn", "fileDiffReturn"}
        /\ ev'.work = k
        /\ works[k].orphaned)
         => UNCHANGED <<states, inflight>>]_vars

\* a computation started before a reset has completed after it: its result
\* is the stored state of the workspace, and the computation started after
\* the reset is unfinished and no longer registered
C29_OrphanOverwrote ==
  \E k, j \in WorkIds :
    /\ ev.op = "gitStatusReturn" /\ ev.work = k
    /\ works[k].orphaned /\ works[k].pc = "done"
    /\ states[works[k].ws] = works[k].result
    /\ j > k /\ works[j].ws = works[k].ws /\ ~works[j].orphaned /\ Unfinished(j)
    /\ inflight[works[k].ws] = NoWork

\* C30: after the board tears down its watchers (effect cleanup), nothing
\* armed by that subscription generation causes a later status transition
\* or review trigger: pending idle-grace timers are cancelled, and a polling
\* check still in flight at teardown performs no transition.
C30_TeardownIsFinal ==
  [][/\ ev'.op = "resubscribe" => \A w \in WorkspaceIds : ~leakedTimers'[w]
     /\ (ev'.op = "leakedTimer" \/ (ev'.op = "pollReturn" /\ ev'.cancelled))
          => (BoardNoTransition /\ ev'.calls = <<>>)]_vars

\* an idle timer armed before a teardown fired after it, moved the
\* workspace to done and started a review
C30_OldTimerMarkedDone ==
  /\ ev.op = "leakedTimer" /\ ev.ws = "ws1"
  /\ Len(ev.calls) = 1
  /\ getStatus("ws1") = "done"
  /\ states["ws1"].status = "running"

\* C31: at every moment there is at most one pending idle-grace timer per
\* workspace: an idle signal arriving while a timer is pending cancels it
\* before arming the new one, a busy signal cancels it, and the bound also
\* holds across re-subscriptions of the board.
C31_OneTimerPerWorkspace ==
  \A w \in WorkspaceIds : ~(idleTimers[w] /\ leakedTimers[w])

\* the board re-subscribed while an active workspace was idle: the timer of
\* the old subscription and the timer of the new one are both pending
C31_TwoTimersPending ==
  /\ ev.op = "resubscribe"
  /\ idleTimers["ws1"] /\ leakedTimers["ws1"]
  /\ getStatus("ws1") = "in-progress"

\* C32: in every reachable tab collection, built from the default state or
\* loaded from persisted storage and then mutated by any sequence of
\* registry operations, no two tabs of a workspace share the same id.
C32_UniqueIds ==
  \A w \in TabWorkspaces, fb \in Providers :
    \A i, j \in DOMAIN Collection(w, fb).tabs :
      Collection(w, fb).tabs[i].id = Collection(w, fb).tabs[j].id => i = j

\* openReviewSurface appended a review surface beside a reloaded tab that
\* already carries its id
C32_TwoTabsOneId ==
  /\ ev.op = "openReviewSurface" /\ ev.ret = "claude-review"
  /\ CountId("ws1", "claude-review") = 2

\* C33: persistence round-trip of the tab collection: a collection committed
\* by the registry and then reloaded from durable storage has the same tabs
\* in the same order with the same id, provider and isReview flag, and the
\* same activeId; a review surface is still a review surface after reload.
C33_RoundTrip ==
  \A w \in TabWorkspaces :
    (workspaceStates[w] # NoTabs /\ tabStorage[w] = Stored(workspaceStates[w]))
      => loadFromStorage(tabStorage[w]) = workspaceStates[w]

\* the renderer reloaded over a stored collection with a review surface,
\* and the collection read back has none
C33_ReviewFlagLost ==
  /\ ev.op = "reload"
  /\ tabStorage["ws1"].kind = "json"
  /\ \E i \in DOMAIN tabStorage["ws1"].tabs : tabStorage["ws1"].tabs[i].isReview
  /\ ~HasReviewSurface("ws1", Collection("ws1", "codex"))

C35_ErrorIsRetried ==
  [][\A w \in WorkspaceIds :
       (ev'.op = "startReview" /\ ev'.ws = w /\ states[w].status = "error") =>
         /\ ev'.started
         /\ Len(works') = Len(works) + 1
         /\ states'[w].ref[1] = Len(works')
         /\ gitStatusCalls'[w] = gitStatusCalls[w] + 1]_vars

\* startReview was called for a workspace whose review ended in error and
\* returned the settled promise of that review
C35_ErrorReturnedAgain ==
  /\ ev.op = "startReview" /\ ev.ws = "ws1" /\ ~ev.started
  /\ states["ws1"].status = "error"
  /\ ev.ret.kind = "promise"
  /\ works[ev.ret.work].pc = "done"
  /\ works[ev.ret.work].result = states["ws1"]

\* C36: in one polling pass, a collaborator call that throws or returns
\* success:false for one workspace neither ends the pass nor stops later
\* passes: the pass goes on to the next workspace of the list and ends only
\* after the last one, and a workspace with positive evidence that is not
\* busy is moved to ready-for-review whatever the calls before it answered.
C36_PollSurvivesFailure ==
  [][ev'.op = "pollReturn" =>
       /\ poll'.pos = (IF poll.pos < Len(wsList) THEN poll.pos + 1 ELSE 0)
       /\ poll'.pos > 0 => poll'.kind = poll.kind
       /\ (ev'.outcome = "positive" /\ ~ev'.cancelled /\ ~busy[ev'.ws])
            => (cache'[ev'.ws] = "done" /\ statusMap'[ev'.ws] = "done")]_vars

\* the call for the first workspace threw, and the same pass moved the
\* second workspace to ready-for-review and started its review
C36_MovedAfterFailure ==
  /\ ev.op = "pollReturn" /\ ev.ws = "ws2"
  /\ ev.prev = "error" /\ ev.outcome = "positive"
  /\ Len(ev.calls) = 1
  /\ getStatus("ws2") = "done"
  /\ getStatus("ws1") # "done"

\* C37: if the VCS-status and diff collaborators always eventually respond
\* (resolve or reject), every review computation started by startReview
\* eventually ends, and ends in success or error (its promise resolves
\* with that state, it never rejects); no workspace stays in the running
\* state forever.
C37_ReviewTerminates ==
  /\ \A k \in 1..MaxWorks :
       (k \in WorkIds /\ Unfinished(k))
         ~> (k \in WorkIds /\ ~Unfinished(k))
  /\ [](\A k \in WorkIds :
          ~Unfinished(k) => works[k].result.status \in {"success", "error"})
  /\ \A w \in WorkspaceIds :
       (states[w].status = "running") ~> (states[w].status # "running")

\* a computation whose getGitStatus call rejected has ended in the error
\* state and the workspace is no longer running
C37_RejectedRunEnded ==
  /\ ev.op = "gitStatusReturn" /\ ev.res.rejected
  /\ ~Unfinished(ev.work)
  /\ works[ev.work].result.status = "error"
  /\ states[ev.ws].status = "error"

\* map[workspaceId] || 'todo' of a status map
StatusIn(map, w) == IF map[w] = None THEN "todo" ELSE map[w]

\* C38: when writes to durable storage fail, setStatus and setReviewPending
\* do not throw and the in-memory cache stays authoritative: after the call
\* the value read for the workspace is the value written and the value read
\* for every other workspace is what it was, and getStatus and
\* isReviewPending return the cached value and leave the caches as they
\* are, so that a read that follows a write returns what was written.
C38_CacheAuthoritative ==
  [][/\ (ev'.op = "setStatus" /\ setItemThrows(statusItem)) =>
          /\ ~ev'.threw
          /\ StatusIn(read', ev'.ws) = ev'.status
          /\ \A u \in WorkspaceIds \ {ev'.ws} :
               StatusIn(read', u) = getStatus(u)
          /\ readReviewPending' = readReviewPending
     /\ (ev'.op = "setReviewPending" /\ setItemThrows(pendingItem)) =>
          /\ ~ev'.threw
          /\ readReviewPending'[ev'.ws] = ev'.pending
          /\ \A u \in WorkspaceIds \ {ev'.ws} :
               readReviewPending'[u] = readReviewPending[u]
          /\ read' = read
     /\ (ev'.op = "getStatus" /\ setItemThrows(statusItem)) =>
          /\ read' = read
          /\ ev'.ret = StatusIn(read, ev'.ws)
          /\ (ev.op = "setStatus" /\ ev.ws = ev'.ws) => ev'.ret = ev.status
     /\ (ev'.op = "isReviewPending" /\ setItemThrows(pendingItem)) =>
          /\ readReviewPending' = readReviewPending
          /\ ev'.ret = readReviewPending[ev'.ws]
          /\ (ev.op = "setReviewPending" /\ ev.ws = ev'.ws)
               => ev'.ret = ev.pending]_vars

\* on a storage that answers reads and refuses writes, a status written in
\* this session is read back although the stored item never received it,
\* and the other workspace still reads as stored
C38_ReadBackUnstored ==
  /\ ev.op = "getStatus" /\ ev.ws = "ws1" /\ ev.ret = "in-progress"
  /\ statusItem.kind = "full" /\ statusItem.map["ws1"] = None
  /\ getStatus("ws2") = "done"
  /\ pendingItem.kind = "throws" /\ isReviewPending("ws1")

====
